---- MODULE Spec2Model ----
(***************************************************************************)
(* Model of ai-planner: the NextAuth credential lifecycle (sign-in, jwt    *)
(* callback, token refresh, session callback) and the protected route      *)
(* handlers (chat, calendar read, calendar batch write).                   *)
(*                                                                         *)
(* Encodings.  A JavaScript `undefined` token / expiry is the number 0     *)
(* (both are falsy in the code's tests).  The session cookie and a session *)
(* object are sequences of length 0 (absent / null) or 1.  Text is a       *)
(* sequence of one-character strings.                                      *)
(***************************************************************************)
EXTENDS Integers, Sequences, FiniteSets, TLC

\* ------------------------------------------------------------------ bounds
NumReq == 2          \* inbound requests in flight at once
MaxTick == 3         \* the clock advances MaxTick times
TickMs == 500        \* milliseconds per clock step
MaxIssued == 3       \* access tokens the identity provider issues
MaxLifetime == 2     \* largest provider-reported lifetime, in seconds
MaxExpSec == 2       \* largest expires_at (seconds) of a sign-in
MaxHist == 12        \* longest caller history of a chat request

\* ------------------------------------------------------- program constants
MsPerSec == 1000

Req == 1..NumReq

Max(a, b) == IF a > b THEN a ELSE b

\* ------------------------------------------------------------- credentials
\* refreshSuccess with the lifetime taken as milliseconds
refreshSuccess_lifetimeAsMs(token, refreshedTokens, dateNow) ==
  [token EXCEPT
     !.accessToken = refreshedTokens.access_token,
     !.expiresAt = dateNow + refreshedTokens.expires_in,
     !.refreshToken = IF refreshedTokens.refresh_token # 0
                      THEN refreshedTokens.refresh_token
                      ELSE token.refreshToken]

\* refreshAccessToken, success return (route.ts:56-62)
refreshSuccess(token, refreshedTokens, dateNow) ==
  [token EXCEPT
     !.accessToken = refreshedTokens.access_token,
     !.expiresAt = dateNow + refreshedTokens.expires_in * MsPerSec,
     !.refreshToken = IF refreshedTokens.refresh_token # 0
                      THEN refreshedTokens.refresh_token
                      ELSE token.refreshToken]

\* refreshFailure that also drops the access token
refreshFailure_dropsAccessToken(token) == [token EXCEPT !.error = TRUE, !.accessToken = 0]

\* refreshAccessToken, catch branch (route.ts:63-69)
refreshFailure(token) == [token EXCEPT !.error = TRUE]

\* refreshAccessToken issues the token-endpoint call only with a refresh token
\* (route.ts:31-33)
refreshHasToken(token) == token.refreshToken # 0

\* refreshAccessToken once the token endpoint has answered (route.ts:43-69):
\* a rejected fetch / unparsable body ("transport") and a non-ok response
\* ("provider") both land in the catch branch.
refreshAccessToken(token, outcome, dateNow) ==
  IF outcome.kind = "ok"
  THEN refreshSuccess(token, outcome, dateNow)
  ELSE refreshFailure(token)

\* jwt callback, first sign-in (route.ts:89-96)
jwtSignIn(account) ==
  [accessToken |-> account.access_token,
   expiresAt |-> account.expires_at * MsPerSec,
   refreshToken |-> account.refresh_token,
   error |-> FALSE,
   user |-> TRUE]

\* jwtStillValid with the expiry instant itself counted as valid
jwtStillValid_inclusive(token, dateNow) ==
  token.expiresAt # 0 /\ dateNow <= token.expiresAt

\* jwt callback, "still valid" test (route.ts:99)
jwtStillValid(token, dateNow) == token.expiresAt # 0 /\ dateNow < token.expiresAt

\* session callback (route.ts:107-117)
sessionCallback(token) ==
  [accessToken |-> token.accessToken, error |-> token.error, user |-> TRUE]

\* ------------------------------------------------------------------- text
WhiteSpace == {" ", "\t", "\n"}

\* String.prototype.trim (part_003:122, chat/route.ts:63, part_001:32)
trim(s) ==
  LET keep == {i \in 1..Len(s) : s[i] \notin WhiteSpace}
  IN IF keep = {} THEN <<>>
     ELSE LET lo == CHOOSE i \in keep : \A j \in 1..(i - 1) : s[j] \in WhiteSpace
              hi == CHOOSE i \in keep : \A j \in (i + 1)..Len(s) : s[j] \in WhiteSpace
          IN SubSeq(s, lo, hi)

\* Array.prototype.slice(-n) (part_003:185)
sliceLast(arr, n) == SubSeq(arr, Max(1, Len(arr) - n + 1), Len(arr))

\* JSON values: [type, chars]; chars is the text of a string and <<>> otherwise.
\* A value of type "number" stands for a non-zero number (truthy).
Str(chars) == [type |-> "string", chars |-> chars]
NonStr(t) == [type |-> t, chars |-> <<>>]
truthy(v) == IF v.type = "string" THEN v.chars # <<>> ELSE v.type = "number"

\* --------------------------------------------------------- chat endpoint
MaxMessageLength == 2000
MAX_HISTORY_LENGTH == 10

\* isMessage (part_003:40-47)
isMessage(arg) ==
  /\ arg.kind = "object"
  /\ arg.role \in {"user", "assistant"}
  /\ arg.content.type = "string"

\* isMessageArray (part_003:49-51)
isMessageArray(arg) ==
  arg.isArray /\ \A i \in 1..Len(arg.items) : isMessage(arg.items[i])

\* isScheduleItemArray (part_003:54-61), on the abstract schedule field
isScheduleItemArray(schedule) == schedule = "valid"

\* isGenAIError (part_003:63-69, chat/route.ts:39-45)
isGenAIError(error) ==
  error.type = "object" /\ (error.status # 0 \/ error.hasMessage)

\* the filter predicate of the history pipeline (part_003:186, chat/route.ts:129)
nonBlank(msg) == truthy(msg.content) /\ trim(msg.content.chars) # <<>>

\* Array.prototype.filter with that predicate, order preserving
RECURSIVE filterNonBlank(_)
filterNonBlank(arr) ==
  IF arr = <<>> THEN <<>>
  ELSE (IF nonBlank(Head(arr)) THEN <<Head(arr)>> ELSE <<>>) \o filterNonBlank(Tail(arr))

\* the map of the history pipeline (part_003:187-190, chat/route.ts:130-133)
toTurn(msg) ==
  [role |-> IF msg.role = "assistant" THEN "model" ELSE "user",
   kind |-> "history",
   text |-> msg.content.chars]

mapTurns(arr) == [i \in 1..Len(arr) |-> toTurn(arr[i])]

\* the persona turn that opens startChat's history (part_003:194-197)
personaTurn(scheduleShown) ==
  [role |-> "user",
   kind |-> "persona",
   text |-> IF scheduleShown THEN <<"persona", "schedule">> ELSE <<"persona", "none">>]

\* recentHistory (part_003:184-190)
recentHistory(history) ==
  mapTurns(filterNonBlank(sliceLast(history.items, MAX_HISTORY_LENGTH)))

\* cleanHistory (chat/route.ts:128-133, part_001:96-101)
cleanHistory(history) == mapTurns(filterNonBlank(history.items))

\* safePrompt (part_003:204)
safePrompt(message) == <<"<UserInput>">> \o message \o <<"</UserInput>">>

\* A parsed request body: kind is "unparsable" (req.json() rejects), "null",
\* "primitive" or "object"; the fields of anything but an object read as
\* undefined.
messageOf(body) == IF body.kind = "object" THEN body.message ELSE NonStr("undefined")
historyOf(body) ==
  IF body.kind = "object" THEN body.history ELSE [isArray |-> FALSE, items |-> <<>>]
scheduleOf(body) == IF body.kind = "object" THEN body.schedule ELSE "absent"

\* Values a handler's try block can throw on its own.
SyntaxErr == [kind |-> "throw", type |-> "object", status |-> 0,
              hasMessage |-> TRUE, msg429 |-> FALSE]
TypeErr == [kind |-> "throw", type |-> "object", status |-> 0,
            hasMessage |-> TRUE, msg429 |-> FALSE]

Reply(status, error, calls) == [status |-> status, error |-> error, calls |-> calls]

\* one model API call: startChat({history}) followed by sendMessage(message)
ModelCall(history, message) == [history |-> history, message |-> message]

\* catchGuarded with one more attempt before the error answer
catchGuarded_retry(error, calls) ==
  IF isGenAIError(error) /\ (error.status = 429 \/ (error.hasMessage /\ error.msg429))
  THEN Reply(429, "RateLimited", calls \o calls)
  ELSE Reply(500, "InternalError", calls \o calls)

\* catch block with the isGenAIError guard (part_003:211-230, chat/route.ts:150-170)
catchGuarded(error, calls) ==
  IF isGenAIError(error) /\ (error.status = 429 \/ (error.hasMessage /\ error.msg429))
  THEN Reply(429, "RateLimited", calls)
  ELSE Reply(500, "InternalError", calls)

\* catch block with the unchecked cast (part_001:110-124): reading a property
\* of a thrown null / undefined throws again and leaves the handler.
catchCast(error, calls) ==
  IF error.type = "nullish" THEN Reply(500, "Unhandled", calls)
  ELSE IF error.status = 429 \/ (error.hasMessage /\ error.msg429)
  THEN Reply(429, "RateLimited", calls)
  ELSE Reply(500, "InternalError", calls)

\* validate_part003 with the length limit off by one
validate_part003_offByOne(body) ==
  IF body.kind = "unparsable" THEN "InvalidJSON"
  ELSE IF body.kind # "object" THEN "InvalidBody"
  ELSE IF body.message.type # "string" THEN "MessageNotString"
  ELSE IF ~isMessageArray(body.history) THEN "InvalidHistory"
  ELSE IF trim(body.message.chars) = <<>> THEN "EmptyMessage"
  ELSE IF Len(body.message.chars) >= MaxMessageLength THEN "MessageTooLong"
  ELSE "ok"

\* validation of the type-guarded chat handler (part_003:84-128); "ok" passes
validate_part003(body) ==
  IF body.kind = "unparsable" THEN "InvalidJSON"
  ELSE IF body.kind # "object" THEN "InvalidBody"
  ELSE IF body.message.type # "string" THEN "MessageNotString"
  ELSE IF ~isMessageArray(body.history) THEN "InvalidHistory"
  ELSE IF trim(body.message.chars) = <<>> THEN "EmptyMessage"
  ELSE IF Len(body.message.chars) > MaxMessageLength THEN "MessageTooLong"
  ELSE "ok"

\* the history pipeline of the unguarded handlers throws a TypeError on a
\* non-array, a null item, or a truthy content without a trim method
\* (chat/route.ts:128-129, part_001:96-97)
historyThrows(history) ==
  \/ ~history.isArray
  \/ \E i \in 1..Len(history.items) :
       \/ history.items[i].kind = "null"
       \/ /\ truthy(history.items[i].content)
          /\ history.items[i].content.type # "string"

\* validation of chat/route.ts (59-74); "throw" leaves the try block
validate_route(body) ==
  IF body.kind \in {"unparsable", "null"} THEN "throw"
  ELSE IF \/ ~truthy(messageOf(body))
          \/ messageOf(body).type # "string"
          \/ Len(trim(messageOf(body).chars)) = 0 THEN "EmptyMessage"
  ELSE IF Len(messageOf(body).chars) > MaxMessageLength THEN "MessageTooLong"
  ELSE IF historyThrows(historyOf(body)) THEN "throw"
  ELSE "ok"

\* validation of part_001 (24-37): message.trim() on a truthy non-string throws
validate_part001(body) ==
  IF body.kind \in {"unparsable", "null"} THEN "throw"
  ELSE IF ~truthy(messageOf(body)) THEN "EmptyMessage"
  ELSE IF messageOf(body).type # "string" THEN "throw"
  ELSE IF Len(trim(messageOf(body).chars)) = 0 THEN "EmptyMessage"
  ELSE IF Len(messageOf(body).chars) > MaxMessageLength THEN "MessageTooLong"
  ELSE IF historyThrows(historyOf(body)) THEN "throw"
  ELSE "ok"

\* the model API call composed by part_003 (181-206)
compose_part003(body) ==
  ModelCall(<<personaTurn(isScheduleItemArray(body.schedule))>>
              \o recentHistory(body.history),
            safePrompt(body.message.chars))

\* the model API call composed by chat/route.ts (127-145) and part_001 (90-105)
compose_route(body) ==
  ModelCall(<<personaTurn(scheduleOf(body) # "absent")>>
              \o cleanHistory(historyOf(body)),
            messageOf(body).chars)

\* POST_chat_part003 without the session check
POST_chat_part003_noSessionCheck(session, body, outcome) ==
  LET v == validate_part003(body) IN
    IF v # "ok" THEN Reply(400, v, <<>>)
    ELSE IF outcome.kind = "ok" THEN Reply(200, "", <<compose_part003(body)>>)
    ELSE catchGuarded(outcome, <<compose_part003(body)>>)

\* POST of the type-guarded chat handler (part_003:73-231)
POST_chat_part003(session, body, outcome) ==
  IF session = <<>> THEN Reply(401, "Unauthorized", <<>>)
  ELSE LET v == validate_part003(body) IN
    IF v # "ok" THEN Reply(400, v, <<>>)
    ELSE IF outcome.kind = "ok" THEN Reply(200, "", <<compose_part003(body)>>)
    ELSE catchGuarded(outcome, <<compose_part003(body)>>)

\* POST of chat/route.ts (47-171)
POST_chat_route(session, body, outcome) ==
  IF session = <<>> THEN Reply(401, "Unauthorized", <<>>)
  ELSE LET v == validate_route(body) IN
    IF v = "throw"
    THEN catchGuarded(IF body.kind = "unparsable" THEN SyntaxErr ELSE TypeErr, <<>>)
    ELSE IF v # "ok" THEN Reply(400, v, <<>>)
    ELSE IF outcome.kind = "ok" THEN Reply(200, "", <<compose_route(body)>>)
    ELSE catchGuarded(outcome, <<compose_route(body)>>)

\* POST of part_001 (17-125)
POST_chat_part001(session, body, outcome) ==
  IF session = <<>> THEN Reply(401, "Unauthorized", <<>>)
  ELSE LET v == validate_part001(body) IN
    IF v = "throw"
    THEN catchCast(IF body.kind = "unparsable" THEN SyntaxErr ELSE TypeErr, <<>>)
    ELSE IF v # "ok" THEN Reply(400, v, <<>>)
    ELSE IF outcome.kind = "ok" THEN Reply(200, "", <<compose_route(body)>>)
    ELSE catchCast(outcome, <<compose_route(body)>>)

\* ----------------------------------------------------- calendar endpoints
MaxBatch == 20

\* one outbound call: the API, the bearer token it carries (0: none), the item
ExtCall(api, bearer, item) == [api |-> api, bearer |-> bearer, item |-> item]

\* GET of the calendar read handler (part_000:5-45)
GET_calendar(session, outcome) ==
  IF session = <<>> \/ session[1].accessToken = 0
  THEN Reply(401, "Unauthorized", <<>>)
  ELSE LET call == <<ExtCall("events.list", session[1].accessToken, 0)>> IN
    IF outcome.kind = "ok" THEN Reply(200, "", call)
    ELSE Reply(500, "InternalError", call)

\* isGoogleDate (route.ts:150-154)
isGoogleDate(arg) ==
  /\ arg.kind = "object"
  /\ (arg.dateTime = "string" \/ arg.date = "string")

\* isCalendarEventInput (route.ts:156-164)
isCalendarEventInput(arg) ==
  /\ arg.kind = "object"
  /\ arg.summary.type = "string"
  /\ isGoogleDate(arg.start)
  /\ isGoogleDate(arg.end)

\* isEventArray (route.ts:166-168)
isEventArray(arg) ==
  arg.isArray /\ \A i \in 1..Len(arg.items) : isCalendarEventInput(arg.items[i])

\* validation of the batch write handler (route.ts:181-204); "ok" passes
validate_create(body) ==
  IF body.kind = "unparsable" THEN "InvalidJSON"
  ELSE IF body.kind # "object" \/ ~body.hasEvents THEN "MissingEvents"
  ELSE IF ~isEventArray(body.events) THEN "InvalidEvents"
  ELSE IF Len(body.events.items) > MaxBatch THEN "BatchTooLarge"
  ELSE "ok"

\* one pass of the registration loop (route.ts:211-252): the per-item result
createResult(event, outcome) ==
  [summary |-> event.summary.chars,
   status |-> IF outcome = "ok" THEN "success" ELSE "error",
   error |-> IF outcome = "ok" THEN ""
             ELSE IF outcome = "api_error" THEN "ApiError"
             ELSE "Network or Server Error"]

BatchReply(status, error, success, results, calls) ==
  [status |-> status, error |-> error, success |-> success,
   results |-> results, calls |-> calls]

\* POST of the batch write handler (route.ts:172-267); outcomes[i] is the
\* provider's answer to the i-th create call
POST_calendar_create(session, body, outcomes) ==
  IF session = <<>> \/ ~session[1].user \/ session[1].accessToken = 0
  THEN BatchReply(401, "Unauthorized", FALSE, <<>>, <<>>)
  ELSE LET v == validate_create(body) IN
    IF v # "ok" THEN BatchReply(400, v, FALSE, <<>>, <<>>)
    ELSE LET events == body.events.items
             n == Len(events)
             results == [i \in 1..n |-> createResult(events[i], outcomes[i])]
             successCount == Cardinality({i \in 1..n : outcomes[i] = "ok"})
         IN BatchReply(200, "", successCount > 0, results,
              [i \in 1..n |-> ExtCall("events.insert", session[1].accessToken, i)])

\* POST of calendar/create/route.ts (5-36): no validation, and a rejected
\* fetch leaves the loop for the outer catch
POST_calendar_create_route(session, body, outcomes) ==
  IF session = <<>> \/ session[1].accessToken = 0
  THEN BatchReply(401, "Unauthorized", FALSE, <<>>, <<>>)
  ELSE IF body.kind # "object" \/ ~body.hasEvents \/ ~body.events.isArray
  THEN BatchReply(500, "Failed to create events", FALSE, <<>>, <<>>)
  ELSE LET events == body.events.items
           n == Len(events)
           net == {i \in 1..n : outcomes[i] = "network"}
           last == IF net = {} THEN n ELSE CHOOSE i \in net : \A j \in net : i <= j
           calls == [i \in 1..last |-> ExtCall("events.insert", session[1].accessToken, i)]
       IN IF net # {}
          THEN BatchReply(500, "Failed to create events", FALSE, <<>>, calls)
          ELSE BatchReply(200, "", TRUE,
                 [i \in 1..n |-> [summary |-> <<>>, status |-> outcomes[i], error |-> ""]],
                 calls)

\* ------------------------------------------------------------------ state
VARIABLES
  now,     \* Date.now(), in milliseconds
  store,   \* the session cookie: <<>> or <<token>>
  issued,  \* access tokens issued so far by the identity provider
  req,     \* the inbound requests in flight, one record per slot
  chat,    \* one chat request followed from body to reply
  cal      \* one calendar request followed from body to reply

vars == <<now, store, issued, req, chat, cal>>

NoToken == [accessToken |-> 0, expiresAt |-> 0, refreshToken |-> 0,
            error |-> FALSE, user |-> FALSE]
NoOutcome == [kind |-> "none", access_token |-> 0, expires_in |-> 0, refresh_token |-> 0]

Endpoints == {"chat_part003", "chat_route", "chat_part001",
              "calendar_get", "calendar_create", "calendar_create_route"}

Idle == [pc |-> "idle", endpoint |-> "none",
         readTok |-> NoToken, tok |-> NoToken, session |-> <<>>,
         attempted |-> FALSE, refreshCalls |-> 0, fetchedAt |-> 0,
         outcome |-> NoOutcome, refreshedAt |-> 0,
         status |-> 0, ext |-> <<>>]

\* ---- request bodies and provider answers used by the credential lifecycle
Chars(n, c) == [i \in 1..n |-> c]

Turn(role, content) == [kind |-> "object", role |-> role, content |-> content]
Hist(items) == [isArray |-> TRUE, items |-> items]
ChatBody(message, history, schedule) ==
  [kind |-> "object", message |-> message, history |-> history, schedule |-> schedule]
Unparsable ==
  [kind |-> "unparsable", message |-> NonStr("undefined"),
   history |-> [isArray |-> FALSE, items |-> <<>>], schedule |-> "absent"]

chatBodyOf(b) ==
  IF b = "valid"
  THEN ChatBody(Str(<<"h", "i">>), Hist(<<Turn("user", Str(<<"a">>))>>), "absent")
  ELSE IF b = "rejected"
  THEN ChatBody(Str(<<" ">>), Hist(<<Turn("user", Str(<<"a">>))>>), "absent")
  ELSE Unparsable

GDate(dateTime, date) == [kind |-> "object", dateTime |-> dateTime, date |-> date]
Event(summary, start, end) ==
  [kind |-> "object", summary |-> summary, start |-> start, end |-> end]
GoodEvent(c) ==
  Event(Str(<<c>>), GDate("string", "undefined"), GDate("undefined", "string"))
EventsBody(isArray, items) ==
  [kind |-> "object", hasEvents |-> TRUE, events |-> [isArray |-> isArray, items |-> items]]

createBodyOf(b) ==
  IF b = "valid" THEN EventsBody(TRUE, <<GoodEvent("x"), GoodEvent("y")>>)
  ELSE [kind |-> "unparsable", hasEvents |-> FALSE,
        events |-> [isArray |-> FALSE, items |-> <<>>]]

Thrown(type, status, hasMessage, msg429) ==
  [kind |-> "throw", type |-> type, status |-> status,
   hasMessage |-> hasMessage, msg429 |-> msg429]
Ok == [kind |-> "ok", type |-> "object", status |-> 0,
       hasMessage |-> FALSE, msg429 |-> FALSE]

\* what sendMessage can do: answer, or throw
ModelOutcomes ==
  {Ok, Thrown("object", 429, TRUE, FALSE), Thrown("object", 0, TRUE, TRUE),
   Thrown("object", 500, TRUE, FALSE), Thrown("object", 0, FALSE, FALSE),
   Thrown("primitive", 0, FALSE, FALSE), Thrown("nullish", 0, FALSE, FALSE)}

ListOutcomes == {[kind |-> "ok"], [kind |-> "http401"], [kind |-> "http500"],
                 [kind |-> "network"]}
CreateOutcome == {"ok", "api_error", "network"}

\* the external calls of a reply, as [api, bearer, item]
extOf(endpoint, reply) ==
  IF endpoint \in {"chat_part003", "chat_route", "chat_part001"}
  THEN [i \in 1..Len(reply.calls) |-> ExtCall("generateContent", 0, i)]
  ELSE reply.calls

\* ---------------------------------------------------------------- actions
ChatIdle ==
  [pc |-> "off", variant |-> "part_003", session |-> <<>>, body |-> Unparsable,
   sent |-> <<>>, outcome |-> Ok, reply |-> Reply(0, "", <<>>)]

\* no calendar request is followed
CalIdle ==
  [pc |-> "off", variant |-> "create", session |-> <<>>, body |-> createBodyOf("invalid"),
   i |-> 1, calls |-> <<>>, inflight |-> 0, outcomes |-> <<>>,
   results |-> <<>>, successCount |-> 0,
   reply |-> BatchReply(0, "", FALSE, <<>>, <<>>)]

Init ==
  /\ now = 0
  /\ store = <<>>
  /\ issued = 0
  /\ req = [r \in Req |-> Idle]
  /\ chat = ChatIdle
  /\ cal = CalIdle

\* the clock advances
Tick ==
  /\ now < MaxTick * TickMs
  /\ now' = now + TickMs
  /\ UNCHANGED <<store, issued, req, chat, cal>>

\* OAuth sign-in: the jwt callback runs with account and user (route.ts:89-96)
SignIn(expires_at, refresh_token) ==
  /\ issued < MaxIssued
  /\ issued' = issued + 1
  /\ store' = <<jwtSignIn([access_token |-> issued + 1,
                           expires_at |-> expires_at,
                           refresh_token |-> refresh_token])>>
  /\ UNCHANGED <<now, req, chat, cal>>

\* signOut() (route.ts:459): the cookie is dropped
SignOut ==
  /\ store # <<>>
  /\ store' = <<>>
  /\ UNCHANGED <<now, issued, req, chat, cal>>

\* A request arrives and getServerSession runs the jwt callback on the cookie
\* it carries (route.ts:98-104, 174; part_000:7; part_003:75), up to the
\* await of the token endpoint.  The callback's return value is written back.
Fetch(r) ==
  /\ req[r].pc = "idle"
  /\ LET base == [Idle EXCEPT !.fetchedAt = now]
     IN IF store = <<>>
        THEN /\ req' = [req EXCEPT ![r] = [base EXCEPT !.pc = "handler"]]
             /\ UNCHANGED store
        ELSE LET token == store[1] IN
          IF jwtStillValid(token, now)
          THEN /\ req' = [req EXCEPT ![r] =
                   [base EXCEPT !.pc = "handler", !.readTok = token, !.tok = token,
                                !.session = <<sessionCallback(token)>>]]
               /\ store' = <<token>>
          ELSE IF ~refreshHasToken(token)
          THEN /\ req' = [req EXCEPT ![r] =
                   [base EXCEPT !.pc = "handler", !.readTok = token,
                                !.tok = refreshFailure(token), !.attempted = TRUE,
                                !.session = <<sessionCallback(refreshFailure(token))>>]]
               /\ store' = <<refreshFailure(token)>>
          ELSE /\ req' = [req EXCEPT ![r] =
                   [base EXCEPT !.pc = "refreshing", !.readTok = token, !.tok = token,
                                !.attempted = TRUE, !.refreshCalls = 1]]
               /\ UNCHANGED store
  /\ UNCHANGED <<now, issued, chat, cal>>

\* The token endpoint answers (route.ts:43-69); the jwt callback returns, the
\* new cookie is set and the session callback builds the session.
RefreshReturn(r, outcome) ==
  /\ req[r].pc = "refreshing"
  /\ outcome.kind = "ok" => issued < MaxIssued
  /\ LET token == refreshAccessToken(req[r].tok, outcome, now) IN
       /\ req' = [req EXCEPT ![r] =
            [@ EXCEPT !.pc = "handler", !.tok = token, !.outcome = outcome,
                      !.refreshedAt = now, !.session = <<sessionCallback(token)>>]]
       /\ store' = <<token>>
  /\ issued' = IF outcome.kind = "ok" THEN issued + 1 ELSE issued
  /\ UNCHANGED <<now, chat, cal>>

\* the replies the handler of an endpoint can give on a session and body
Replies(endpoint, session, body) ==
  CASE endpoint = "chat_part003" ->
         {POST_chat_part003(session, chatBodyOf(body), o) : o \in ModelOutcomes}
    [] endpoint = "chat_route" ->
         {POST_chat_route(session, chatBodyOf(body), o) : o \in ModelOutcomes}
    [] endpoint = "chat_part001" ->
         {POST_chat_part001(session, chatBodyOf(body), o) : o \in ModelOutcomes}
    [] endpoint = "calendar_get" ->
         {GET_calendar(session, o) : o \in ListOutcomes}
    [] endpoint = "calendar_create" ->
         {POST_calendar_create(session, createBodyOf(body), o) :
            o \in [1..2 -> CreateOutcome]}
    [] endpoint = "calendar_create_route" ->
         {POST_calendar_create_route(session, createBodyOf(body), o) :
            o \in [1..2 -> CreateOutcome]}

\* The route handler runs on the session it was given: it reads the body
\* (awaited after getServerSession in every handler) and answers.
Handle(r, endpoint, reply) ==
  /\ req[r].pc = "handler"
  /\ req' = [req EXCEPT ![r] =
       [Idle EXCEPT !.pc = "done", !.endpoint = endpoint,
                    !.session = req[r].session,
                    !.status = reply.status, !.ext = extOf(endpoint, reply)]]
  /\ UNCHANGED <<now, store, issued, chat, cal>>

\* GET /api/auth/session, served by the NextAuth handler (route.ts:122-123):
\* the session is the whole answer and nothing else is called.
SessionReply(r) ==
  /\ req[r].pc = "handler"
  /\ req' = [req EXCEPT ![r] = Idle]
  /\ UNCHANGED <<now, store, issued, chat, cal>>

\* the response has been sent; the slot takes the next request
Finish(r) ==
  /\ req[r].pc = "done"
  /\ req' = [req EXCEPT ![r] = Idle]
  /\ UNCHANGED <<now, store, issued, chat, cal>>

RefreshOutcomes(token) ==
  {[kind |-> k, access_token |-> 0, expires_in |-> 0, refresh_token |-> 0] :
     k \in {"transport", "provider"}}
  \cup {[kind |-> "ok", access_token |-> issued + 1, expires_in |-> e, refresh_token |-> n] :
          e \in 1..MaxLifetime, n \in {0, token.refreshToken + 1}}

\* One inbound request at a time, on any endpoint.
Next ==
  \/ Tick
  \/ \E e \in 0..MaxExpSec, t \in {0, 1} : SignIn(e, t)
  \/ SignOut
  \/ Fetch(1)
  \/ /\ req[1].pc = "refreshing"
     /\ \E o \in RefreshOutcomes(req[1].tok) : RefreshReturn(1, o)
  \/ /\ req[1].pc = "handler"
     /\ \E e \in Endpoints, b \in {"valid", "invalid"} :
          \E reply \in Replies(e, req[1].session, b) : Handle(1, e, reply)
  \/ SessionReply(1)
  \/ Finish(1)

Spec == Init /\ [][Next]_vars

\* Overlapping credential fetches: every request slot runs the session
\* endpoint, interleaved at the await of the token endpoint.
NextRace ==
  \/ Tick
  \/ \E e \in 0..MaxExpSec, t \in {0, 1} : SignIn(e, t)
  \/ SignOut
  \/ \E r \in Req : Fetch(r)
  \/ \E r \in Req : \E o \in RefreshOutcomes(req[r].tok) : RefreshReturn(r, o)
  \/ \E r \in Req : SessionReply(r)

SpecRace == Init /\ [][NextRace]_vars

\* ------------------------------------------------- one chat request, alone
Alphabet == <<"a", "b", "c", "d", "e", "f", "g", "h", "i", "j", "k", "l", "m",
              "n", "o", "p", "q", "r", "s", "t", "u", "v", "w", "x", "y", "z">>

\* A history as the page keeps it (route.ts:327-352): user and assistant turns
\* alternate and turn i says the i-th letter; pattern 1 empties every third
\* content, pattern 2 blanks every fourth.
HistGen(n, pattern) ==
  Hist([i \in 1..n |->
    Turn(IF i % 2 = 1 THEN "user" ELSE "assistant",
         IF pattern = 1 /\ i % 3 = 0 THEN Str(<<>>)
         ELSE IF pattern = 2 /\ i % 4 = 1 THEN Str(<<" ", "\t">>)
         ELSE Str(<<Alphabet[i]>>))])

BadHistories ==
  {[isArray |-> FALSE, items |-> <<>>],
   Hist(<<Turn("user", Str(<<"a">>)), Turn("system", Str(<<"b">>))>>),
   Hist(<<Turn("user", NonStr("number"))>>),
   Hist(<<Turn("user", NonStr("undefined"))>>),
   Hist(<<[kind |-> "null", role |-> "", content |-> NonStr("undefined")]>>),
   Hist(<<[kind |-> "primitive", role |-> "", content |-> NonStr("undefined")]>>)}

Histories ==
  {HistGen(n, p) : n \in 0..MaxHist, p \in 0..2} \cup BadHistories

Messages ==
  {Str(Chars(n, "a")) :
     n \in {1, MaxMessageLength - 1, MaxMessageLength, MaxMessageLength + 1}}
  \cup {Str(Chars(n, " ")) : n \in {0, 1, MaxMessageLength + 1}}
  \cup {Str(<<" ">> \o Chars(n, "a") \o <<"\n">>) :
          n \in {1, MaxMessageLength - 2, MaxMessageLength - 1, MaxMessageLength}}
  \cup {NonStr("undefined"), NonStr("number")}

ChatBodies ==
  {ChatBody(m, h, IF Len(h.items) % 3 = 0 THEN "absent"
                  ELSE IF Len(h.items) % 3 = 1 THEN "valid" ELSE "malformed") :
     m \in Messages, h \in Histories}
  \cup {Unparsable, [Unparsable EXCEPT !.kind = "null"],
        [Unparsable EXCEPT !.kind = "primitive"]}

ChatVariants == {"part_003", "route", "part_001"}

ChatSessions == {<<>>, <<[accessToken |-> 1, error |-> FALSE, user |-> TRUE]>>}

\* the chat handler of a variant
POST_chat(variant, session, body, outcome) ==
  CASE variant = "part_003" -> POST_chat_part003(session, body, outcome)
    [] variant = "route" -> POST_chat_route(session, body, outcome)
    [] variant = "part_001" -> POST_chat_part001(session, body, outcome)

InitChat ==
  /\ now = 0
  /\ store = <<>>
  /\ issued = 0
  /\ req = [r \in Req |-> Idle]
  /\ chat \in {[ChatIdle EXCEPT !.pc = "ready", !.variant = v, !.session = s, !.body = b] :
                 v \in ChatVariants, s \in ChatSessions, b \in ChatBodies}
  /\ cal = CalIdle

\* The handler runs up to its answer or to the await of sendMessage.
ChatReceive ==
  /\ chat.pc = "ready"
  /\ LET first == POST_chat(chat.variant, chat.session, chat.body, Ok) IN
       chat' = IF first.calls = <<>>
               THEN [chat EXCEPT !.pc = "done", !.reply = first]
               ELSE [chat EXCEPT !.pc = "awaiting", !.sent = first.calls]
  /\ UNCHANGED <<now, store, issued, req, cal>>

\* sendMessage settles and the handler answers.
ChatReturn(outcome) ==
  /\ chat.pc = "awaiting"
  /\ chat' = [chat EXCEPT !.pc = "done", !.outcome = outcome,
                !.reply = POST_chat(chat.variant, chat.session, chat.body, outcome)]
  /\ UNCHANGED <<now, store, issued, req, cal>>

NextChat ==
  \/ ChatReceive
  \/ \E o \in ModelOutcomes : ChatReturn(o)

SpecChat == InitChat /\ [][NextChat]_vars

\* ---------------------------------------------- one calendar request, alone
MaxFail == 3

BatchSizes == {0, 1, 2, 3, 10, MaxBatch, MaxBatch + 1}

\* a batch of n well-formed events, the i-th named by the i-th letter
Batch(n) == [i \in 1..n |-> GoodEvent(Alphabet[i])]

NullDate == [kind |-> "null", dateTime |-> "undefined", date |-> "undefined"]
NullEvent ==
  [kind |-> "null", summary |-> NonStr("undefined"), start |-> NullDate, end |-> NullDate]

\* events that isCalendarEventInput refuses
BadEvents ==
  {Event(NonStr("number"), GDate("string", "undefined"), GDate("string", "undefined")),
   Event(NonStr("undefined"), GDate("string", "undefined"), GDate("string", "undefined")),
   Event(Str(<<"x">>), GDate("undefined", "undefined"), GDate("string", "undefined")),
   Event(Str(<<"x">>), GDate("undefined", "string"), GDate("number", "number")),
   Event(Str(<<"x">>), GDate("string", "undefined"), NullDate),
   NullEvent}

NoEventsField ==
  [kind |-> "object", hasEvents |-> FALSE, events |-> [isArray |-> FALSE, items |-> <<>>]]

\* request bodies of the batch write endpoint
CreateBodies ==
  {EventsBody(TRUE, Batch(n)) : n \in BatchSizes}
  \cup {EventsBody(TRUE, [Batch(3) EXCEPT ![k] = e]) : k \in {1, 3}, e \in BadEvents}
  \cup {EventsBody(FALSE, <<>>), NoEventsField, createBodyOf("invalid"),
        [createBodyOf("invalid") EXCEPT !.kind = "null"]}

CalVariants == {"create", "create_route", "list"}

CalSessions ==
  ChatSessions \cup {<<[accessToken |-> 0, error |-> TRUE, user |-> TRUE]>>}

\* The provider outcomes explored for one batch: at most MaxFail failed
\* calls, or a provider that fails every call the same way.
mayFail(outcomes, outcome) ==
  \/ outcome = "ok"
  \/ Cardinality({k \in 1..Len(outcomes) : outcomes[k] # "ok"}) < MaxFail
  \/ \A k \in 1..Len(outcomes) : outcomes[k] = outcome

\* receive that submits the first event of a batch before it refuses the
\* batch for another of its events
receive_validatesLate(c) ==
  LET v == validate_create(c.body)
      authenticated == c.session # <<>> /\ c.session[1].accessToken # 0
      call == <<ExtCall(IF c.variant = "list" THEN "events.list" ELSE "events.insert",
                        IF authenticated THEN c.session[1].accessToken ELSE 0, 1)>>
  IN IF ~authenticated
     THEN [c EXCEPT !.pc = "done", !.reply = BatchReply(401, "Unauthorized", FALSE, <<>>, <<>>)]
     ELSE IF c.variant = "list" THEN [c EXCEPT !.pc = "awaiting", !.inflight = 1, !.calls = call]
     ELSE IF v = "ok" \/ c.variant = "create_route" THEN [c EXCEPT !.pc = "loop"]
     ELSE IF v = "InvalidEvents" /\ c.body.events.isArray
     THEN [c EXCEPT !.pc = "done", !.calls = call,
                    !.reply = BatchReply(400, v, FALSE, <<>>, call)]
     ELSE [c EXCEPT !.pc = "done", !.reply = BatchReply(400, v, FALSE, <<>>, <<>>)]

\* the handler up to its answer or to the head of the registration loop
\* (route.ts:174-208); the read handler up to its fetch (part_000:7-30)
receive(c) ==
  LET unauth == BatchReply(401, "Unauthorized", FALSE, <<>>, <<>>)
      v == validate_create(c.body)
  IN CASE c.variant = "create" ->
            IF c.session = <<>> \/ ~c.session[1].user \/ c.session[1].accessToken = 0
            THEN [c EXCEPT !.pc = "done", !.reply = unauth]
            ELSE IF v # "ok"
            THEN [c EXCEPT !.pc = "done", !.reply = BatchReply(400, v, FALSE, <<>>, <<>>)]
            ELSE [c EXCEPT !.pc = "loop"]
       [] c.variant = "create_route" ->
            IF c.session = <<>> \/ c.session[1].accessToken = 0
            THEN [c EXCEPT !.pc = "done", !.reply = unauth]
            ELSE IF c.body.kind # "object" \/ ~c.body.hasEvents \/ ~c.body.events.isArray
            THEN [c EXCEPT !.pc = "done",
                    !.reply = BatchReply(500, "Failed to create events", FALSE, <<>>, <<>>)]
            ELSE [c EXCEPT !.pc = "loop"]
       [] c.variant = "list" ->
            IF c.session = <<>> \/ c.session[1].accessToken = 0
            THEN [c EXCEPT !.pc = "done", !.reply = unauth]
            ELSE [c EXCEPT !.pc = "awaiting", !.inflight = 1,
                    !.calls = <<ExtCall("events.list", c.session[1].accessToken, 0)>>]

\* issueCreate without the await: the loop goes on to the next event
issueCreate_noAwait(c) ==
  [c EXCEPT !.i = @ + 1, !.inflight = @ + 1,
            !.calls = Append(@, ExtCall("events.insert", c.session[1].accessToken, c.i))]

\* the fetch of one pass of the loop is issued (route.ts:213-220,
\* calendar/create/route.ts:18-25) and awaited
issueCreate(c) ==
  [c EXCEPT !.pc = "awaiting", !.inflight = @ + 1,
            !.calls = Append(@, ExtCall("events.insert", c.session[1].accessToken, c.i))]

\* the rest of one pass (route.ts:222-252): the result is recorded, whatever
\* the provider answered, and the loop goes on
settleCreate(c, outcome) ==
  [c EXCEPT !.pc = "loop", !.inflight = @ - 1, !.i = @ + 1,
            !.outcomes = Append(@, outcome),
            !.results = Append(@, createResult(c.body.events.items[c.i], outcome)),
            !.successCount = IF outcome = "ok" THEN @ + 1 ELSE @]

\* the rest of one pass in calendar/create/route.ts (26-27, 32-35): the
\* provider's answer is pushed; a rejected fetch is caught outside the loop
settleCreate_route(c, outcome) ==
  IF outcome = "network"
  THEN [c EXCEPT !.pc = "done", !.inflight = @ - 1, !.outcomes = Append(@, outcome),
                 !.reply = BatchReply(500, "Failed to create events", FALSE, <<>>, c.calls)]
  ELSE [c EXCEPT !.pc = "loop", !.inflight = @ - 1, !.i = @ + 1,
                 !.outcomes = Append(@, outcome),
                 !.results = Append(@, [summary |-> <<>>, status |-> outcome, error |-> ""])]

\* the answer after the loop (route.ts:257-261, calendar/create/route.ts:30)
replyCreate(c) ==
  BatchReply(200, "", IF c.variant = "create" THEN c.successCount > 0 ELSE TRUE,
             c.results, c.calls)

InitCal ==
  /\ now = 0
  /\ store = <<>>
  /\ issued = 0
  /\ req = [r \in Req |-> Idle]
  /\ chat = ChatIdle
  /\ cal \in {[CalIdle EXCEPT !.pc = "ready", !.variant = v, !.session = s, !.body = b] :
                v \in {"create", "create_route"}, s \in CalSessions, b \in CreateBodies}
             \cup {[CalIdle EXCEPT !.pc = "ready", !.variant = "list", !.session = s] :
                     s \in CalSessions}

\* The handler runs up to its answer or to its first await of the provider.
CalReceive ==
  /\ cal.pc = "ready"
  /\ cal' = receive(cal)
  /\ UNCHANGED <<now, store, issued, req, chat>>

\* The loop takes the next event and submits it.
CreateIssue ==
  /\ cal.pc = "loop"
  /\ cal.i <= Len(cal.body.events.items)
  /\ cal' = issueCreate(cal)
  /\ UNCHANGED <<now, store, issued, req, chat>>

\* The create call settles.
CreateReturn(outcome) ==
  /\ cal.pc = "awaiting"
  /\ cal.variant # "list"
  /\ mayFail(cal.outcomes, outcome)
  /\ cal' = IF cal.variant = "create" THEN settleCreate(cal, outcome)
            ELSE settleCreate_route(cal, outcome)
  /\ UNCHANGED <<now, store, issued, req, chat>>

\* The loop is over and the handler answers.
CreateReply ==
  /\ cal.pc = "loop"
  /\ cal.i > Len(cal.body.events.items)
  /\ cal' = [cal EXCEPT !.pc = "done", !.reply = replyCreate(cal)]
  /\ UNCHANGED <<now, store, issued, req, chat>>

\* The list call settles and the read handler answers (part_000:32-44).
ListReturn(outcome) ==
  /\ cal.pc = "awaiting"
  /\ cal.variant = "list"
  /\ LET reply == GET_calendar(cal.session, outcome) IN
       cal' = [cal EXCEPT !.pc = "done", !.inflight = @ - 1,
                 !.outcomes = <<outcome.kind>>,
                 !.reply = BatchReply(reply.status, reply.error, FALSE, <<>>, cal.calls)]
  /\ UNCHANGED <<now, store, issued, req, chat>>

NextCal ==
  \/ CalReceive
  \/ CreateIssue
  \/ \E o \in CreateOutcome : CreateReturn(o)
  \/ CreateReply
  \/ \E o \in ListOutcomes : ListReturn(o)

SpecCal == InitCal /\ [][NextCal]_vars

\* ------------------------------------- one request, alone, on any endpoint
ChatBodiesSmall ==
  {chatBodyOf(b) : b \in {"valid", "invalid", "rejected"}}
  \cup {ChatBody(Str(Chars(MaxMessageLength + 1, "a")), Hist(<<>>), "absent"),
        ChatBody(Str(<<"h", "i">>), Hist(<<Turn("system", Str(<<"b">>))>>), "absent")}

InitRequest ==
  \/ InitCal
  \/ /\ now = 0
     /\ store = <<>>
     /\ issued = 0
     /\ req = [r \in Req |-> Idle]
     /\ cal = CalIdle
     /\ chat \in {[ChatIdle EXCEPT !.pc = "ready", !.variant = v, !.session = s, !.body = b] :
                    v \in ChatVariants, s \in ChatSessions, b \in ChatBodiesSmall}

NextRequest == NextChat \/ NextCal

SpecRequest == InitRequest /\ [][NextRequest]_vars

\* ================================================================= claims

\* C1: an access token is handed to the session only if the clock read by the
\* jwt callback was strictly before the expiry recorded in the cookie, or
\* refreshAccessToken ran during that same fetch; a missing (0) or passed
\* expiry never goes through without a refresh attempt.
C1_ExpiryCheckedBeforeUse ==
  \A r \in Req :
    (req[r].pc = "handler" /\ req[r].session # <<>>) =>
      /\ req[r].session[1].accessToken = req[r].tok.accessToken
      /\ \/ req[r].attempted
         \/ /\ req[r].readTok.expiresAt # 0
            /\ req[r].fetchedAt < req[r].readTok.expiresAt
            /\ req[r].tok = req[r].readTok

\* C1 witness: a session was handed a token read at the very instant of its
\* recorded expiry (not strictly before it), after a refresh attempt.
C1_Witness ==
  \E r \in Req :
    /\ req[r].pc = "handler" /\ req[r].session # <<>> /\ req[r].attempted
    /\ req[r].readTok.expiresAt # 0
    /\ req[r].readTok.expiresAt = req[r].fetchedAt

\* C2: once the stored credential carries the error flag, the flag stays set
\* in the store until a sign-in replaces the credential, whatever the later
\* refresh calls answer.
C2_FlagStaysUntilSignIn ==
  [][(/\ store # <<>> /\ store[1].error
      /\ store' # <<>> /\ ~store'[1].error)
     => \E e \in 0..MaxExpSec, t \in {0, 1} : SignIn(e, t)]_vars

\* C3: a protected request whose session carries the error flag issues no
\* call to the calendar or model provider.
C3_NoCallOnRefreshFailed ==
  \A r \in Req :
    (req[r].pc = "done" /\ req[r].session # <<>> /\ req[r].session[1].error)
      => req[r].ext = <<>>

\* C4: a stored credential is refreshed by at most one request: no two
\* requests have both issued a refresh call for the same credential read.
C4_SingleRefresher ==
  \A r1, r2 \in Req :
    (r1 # r2 /\ req[r1].refreshCalls > 0 /\ req[r2].refreshCalls > 0)
      => req[r1].readTok # req[r2].readTok

\* C5: on every protected endpoint a request without a session is answered
\* 401 and issues no call to the model API or the calendar API.
C5_Unauthenticated401 ==
  \A r \in Req :
    (req[r].pc = "done" /\ req[r].session = <<>>)
      => (req[r].status = 401 /\ req[r].ext = <<>>)

\* C5 witness: the batch write endpoint has answered a request that had no
\* session.
C5_Witness ==
  \E r \in Req :
    req[r].pc = "done" /\ req[r].session = <<>> /\ req[r].endpoint = "calendar_create"

\* C6: after a successful refresh the credential has the provider's access
\* token, expiry = clock + lifetime * 1000 (in the future), the provider's
\* refresh token if it sent one and the old one otherwise, and every other
\* field as read.
C6_RefreshedCredential ==
  \A r \in Req :
    (req[r].pc = "handler" /\ req[r].outcome.kind = "ok") =>
      LET t == req[r].tok
          old == req[r].readTok
          o == req[r].outcome
      IN /\ t.accessToken = o.access_token
         /\ t.expiresAt = req[r].refreshedAt + o.expires_in * 1000
         /\ t.expiresAt > req[r].refreshedAt
         /\ t.refreshToken = IF o.refresh_token # 0 THEN o.refresh_token
                             ELSE old.refreshToken
         /\ t.error = old.error
         /\ t.user = old.user
         /\ req[r].refreshCalls = 1
         /\ req[r].session = <<sessionCallback(t)>>

\* C6 witness: a refresh of an expired credential succeeded without a new
\* refresh token, so the old one is retained.
C6_Witness ==
  \E r \in Req :
    /\ req[r].pc = "handler" /\ req[r].outcome.kind = "ok"
    /\ req[r].outcome.refresh_token = 0
    /\ req[r].readTok.expiresAt # 0
    /\ req[r].readTok.expiresAt <= req[r].fetchedAt
    /\ req[r].tok.refreshToken = req[r].readTok.refreshToken

\* the rule order of the specification, section 4.2
ruleOrder(body) ==
  IF body.kind # "object" THEN "MalformedInput"
  ELSE IF body.message.type # "string" \/ trim(body.message.chars) = <<>>
  THEN "EmptyMessage"
  ELSE IF Len(body.message.chars) > 2000 THEN "MessageTooLong"
  ELSE IF ~isMessageArray(body.history) THEN "InvalidHistory"
  ELSE "ok"

\* the error of a response, in the taxonomy of the specification
taxonomy(error) ==
  IF error \in {"InvalidJSON", "InvalidBody"} THEN "MalformedInput"
  ELSE IF error = "MessageNotString" THEN "EmptyMessage"
  ELSE error

\* C7: a chat request that violates validation rules is answered 400 with the
\* error of the first rule it violates in the order MalformedInput,
\* EmptyMessage, MessageTooLong, InvalidHistory.
C7_FirstViolatedRule ==
  (chat.pc = "done" /\ chat.session # <<>> /\ ruleOrder(chat.body) # "ok")
    => /\ chat.reply.status = 400
       /\ taxonomy(chat.reply.error) = ruleOrder(chat.body)

\* C8: with a non-blank message and a valid history, the answer is 400
\* MessageTooLong exactly when the message is longer than 2000, and a rejected
\* message is never sent to the model API.
C8_LengthLimit ==
  LET b == chat.body IN
    (/\ chat.session # <<>> /\ b.kind = "object" /\ b.message.type = "string"
     /\ trim(b.message.chars) # <<>> /\ isMessageArray(b.history))
    => /\ chat.pc = "done" =>
            ((chat.reply.status = 400 /\ chat.reply.error = "MessageTooLong")
               <=> Len(b.message.chars) > 2000)
       /\ (chat.pc = "done" /\ chat.reply.status = 400) =>
            (chat.reply.calls = <<>> /\ chat.sent = <<>>)
       /\ chat.pc # "ready" =>
            (chat.sent # <<>> <=> Len(b.message.chars) <= 2000)

\* C8 witness: a non-blank message of length 2001 with a valid history has
\* been rejected.
C8_Witness ==
  /\ chat.pc = "done" /\ chat.session # <<>> /\ chat.body.kind = "object"
  /\ chat.body.message.type = "string"
  /\ Len(chat.body.message.chars) = 2001
  /\ trim(chat.body.message.chars) # <<>>
  /\ isMessageArray(chat.body.history)
  /\ chat.reply.status = 400

\* C9: every conversation sent to the model API opens with the persona turn
\* followed by an assistant acknowledgment turn.
C9_AcknowledgmentTurn ==
  \A i \in 1..Len(chat.sent) :
    /\ Len(chat.sent[i].history) >= 2
    /\ chat.sent[i].history[1].kind = "persona"
    /\ chat.sent[i].history[2].kind = "ack"
    /\ chat.sent[i].history[2].role = "model"

\* C10: the history turns of a model request are at most 10 and come from the
\* 10 most recent turns of the caller's history.
C10_RecentTenOnly ==
  \A i \in 1..Len(chat.sent) :
    LET items == chat.body.history.items
        n == Len(items)
        recent == {items[j].content.chars : j \in Max(1, n - 9)..n}
        turns == SubSeq(chat.sent[i].history, 2, Len(chat.sent[i].history))
    IN /\ Len(turns) <= 10
       /\ \A k \in 1..Len(turns) : turns[k].text \in recent

\* C11: the history turns of a model request are exactly the turns among the
\* 10 most recent of the caller's history whose content is not blank, in the
\* caller's order, "assistant" sent as "model" and "user" as "user", content
\* unchanged; no turn with empty or whitespace-only content is sent.
C11_HistoryTurns ==
  \A i \in 1..Len(chat.sent) :
    LET items == chat.body.history.items
        n == Len(items)
        retained == SubSeq(items, Max(1, n - 9), n)
        kept == SelectSeq(retained,
                  LAMBDA t : /\ t.content.type = "string"
                             /\ \E k \in 1..Len(t.content.chars) :
                                  t.content.chars[k] \notin WhiteSpace)
        turns == SubSeq(chat.sent[i].history, 2, Len(chat.sent[i].history))
    IN /\ Len(turns) = Len(kept)
       /\ \A k \in 1..Len(turns) :
            /\ turns[k].text = kept[k].content.chars
            /\ kept[k].role = "assistant" => turns[k].role = "model"
            /\ kept[k].role = "user" => turns[k].role = "user"
            /\ \E c \in 1..Len(turns[k].text) : turns[k].text[c] \notin WhiteSpace

\* the batch write request carries a session with an access token
calAuthenticated == cal.session # <<>> /\ cal.session[1].accessToken # 0

\* its body is an object whose events field is an array of well-formed events
calWellFormed ==
  /\ cal.variant # "list"
  /\ cal.body.kind = "object" /\ cal.body.hasEvents
  /\ cal.body.events.isArray
  /\ \A k \in 1..Len(cal.body.events.items) :
       LET e == cal.body.events.items[k] IN
         /\ e.kind = "object" /\ e.summary.type = "string"
         /\ e.start.kind = "object" /\ e.end.kind = "object"
         /\ "string" \in {e.start.dateTime, e.start.date}
         /\ "string" \in {e.end.dateTime, e.end.date}

\* C12: a batch write of more than 20 events is answered 400 BatchTooLarge
\* and issues no create call, a batch of exactly 20 valid events passes
\* validation, and no batch write request issues more than 20 create calls.
C12_BatchCap ==
  /\ Len(cal.calls) <= 20
  /\ (cal.pc = "done" /\ calAuthenticated /\ calWellFormed) =>
       IF Len(cal.body.events.items) > 20
       THEN /\ cal.reply.status = 400
            /\ cal.reply.error = "BatchTooLarge"
            /\ cal.reply.calls = <<>>
       ELSE cal.reply.status # 400

\* C13: the answer to a validated batch of N events has N results, the i-th
\* for the i-th event, successCount is the number of results with status
\* success, and success is true exactly when successCount > 0.
C13_PerItemResults ==
  (/\ cal.pc = "done" /\ calAuthenticated /\ calWellFormed
   /\ Len(cal.body.events.items) <= 20) =>
    LET events == cal.body.events.items
        results == cal.reply.results
        succeeded == {k \in 1..Len(results) : results[k].status = "success"}
    IN /\ Len(results) = Len(events)
       /\ \A k \in 1..Len(results) :
            /\ results[k].summary = events[k].summary.chars
            /\ results[k].status = IF cal.outcomes[k] = "ok" THEN "success" ELSE "error"
       /\ cal.successCount = Cardinality(succeeded)
       /\ cal.reply.success <=> cal.successCount > 0

\* C14: a failed create call, provider error or transport error, does not
\* abort the batch: every event is submitted, the failure is that item's
\* result, and the request is not answered 500.
C14_FailureDoesNotAbort ==
  (/\ cal.pc = "done" /\ calAuthenticated /\ calWellFormed
   /\ Len(cal.body.events.items) <= 20) =>
    /\ cal.reply.status # 500
    /\ Len(cal.calls) = Len(cal.body.events.items)
    /\ Len(cal.reply.results) = Len(cal.body.events.items)
    /\ \A k \in 1..Len(cal.outcomes) :
         cal.outcomes[k] # "ok" => cal.reply.results[k].status = "error"

\* C15: the create calls of a batch write request are issued one at a time in
\* input order: the k-th call carries the k-th event, a call is issued only
\* when every earlier call has settled, and at most one call is outstanding.
C15_Sequential ==
  cal.variant # "list" =>
    /\ cal.inflight <= 1
    /\ Len(cal.calls) = Len(cal.outcomes) + cal.inflight
    /\ \A k \in 1..Len(cal.calls) : cal.calls[k].item = k
    /\ cal.pc = "awaiting" <=> cal.inflight = 1

\* C15 witness: the 20th create call of a batch is outstanding after 19
\* calls have settled, one of them with a transport error.
C15_Witness ==
  /\ cal.variant = "create" /\ cal.pc = "awaiting" /\ cal.inflight = 1
  /\ Len(cal.calls) = 20 /\ Len(cal.outcomes) = 19
  /\ \E k \in 1..19 : cal.outcomes[k] = "network"

\* C16: when the provider answers the list call with HTTP 401, the calendar
\* read endpoint answers 401 as well.
C16_Provider401PassedThrough ==
  (cal.variant = "list" /\ cal.pc = "done" /\ cal.outcomes = <<"http401">>)
    => cal.reply.status = 401

\* C17: when the model API call fails, the answer is 429 RateLimited if the
\* thrown value is an object with status 429 or a message containing "429",
\* and 500 with the fixed generic error otherwise; the answer carries nothing
\* of the thrown value.
C17_FailureClassification ==
  (chat.pc = "done" /\ chat.sent # <<>> /\ chat.outcome.kind = "throw") =>
    LET e == chat.outcome
        rateLimited == e.type = "object" /\ (e.status = 429 \/ (e.hasMessage /\ e.msg429))
    IN IF rateLimited
       THEN chat.reply.status = 429 /\ chat.reply.error = "RateLimited"
       ELSE chat.reply.status = 500 /\ chat.reply.error = "InternalError"

\* the credential read by a fetch had to be refreshed
expiredAtFetch(r) ==
  req[r].readTok.expiresAt = 0 \/ req[r].fetchedAt >= req[r].readTok.expiresAt

\* C18: no external call is re-issued within a request: at most one model API
\* call, at most one list call, each event of a batch submitted at most once,
\* and at most one refresh call per credential fetch, exactly one when the
\* credential is expired and has a refresh token.
C18_NoRetry ==
  \A r \in Req :
    /\ req[r].endpoint \in {"chat_part003", "chat_route", "chat_part001", "calendar_get"}
         => Len(req[r].ext) <= 1
    /\ \A i, j \in 1..Len(req[r].ext) :
         req[r].ext[i].item = req[r].ext[j].item => i = j
    /\ req[r].refreshCalls <= 1
    /\ (req[r].pc \in {"refreshing", "handler"} /\ req[r].readTok.refreshToken # 0
        /\ expiredAtFetch(r)) => req[r].refreshCalls = 1
    /\ req[r].pc = "refreshing" => req[r].refreshCalls = 1

\* C18 witness: a chat request whose model API call failed has been answered
\* 500 after a single call.
C18_Witness ==
  \E r \in Req :
    /\ req[r].pc = "done" /\ req[r].endpoint = "chat_part003"
    /\ req[r].status = 500 /\ Len(req[r].ext) = 1

\* C19: a request answered 400 has issued no external call: a refused chat
\* request does not reach the model API and a refused batch creates no event,
\* even when other events of the batch are well-formed.
C19_ValidationBeforeCalls ==
  /\ (chat.pc = "done" /\ chat.reply.status = 400) =>
       (chat.sent = <<>> /\ chat.reply.calls = <<>>)
  /\ (cal.pc = "done" /\ cal.reply.status = 400) =>
       (cal.calls = <<>> /\ cal.reply.calls = <<>>)
  /\ cal.calls # <<>> => (cal.variant = "list" \/ cal.variant = "create_route"
                           \/ validate_create(cal.body) = "ok")

\* C19 witness: a batch of two well-formed events followed by a refused one
\* has been answered 400 by the validating handler.
C19_Witness ==
  /\ cal.variant = "create" /\ cal.pc = "done" /\ calAuthenticated
  /\ cal.reply.status = 400 /\ cal.reply.error = "InvalidEvents"
  /\ Len(cal.body.events.items) = 3
  /\ cal.body.events.items[1] = GoodEvent("a")
  /\ cal.body.events.items[2] = GoodEvent("b")
  /\ cal.calls = <<>>

\* C20: a credential fetch that fails to refresh, for want of a refresh token
\* or because the token endpoint failed, returns the credential it read with
\* only the error flag changed, and without a refresh token it calls nothing.
C20_FailedRefreshFrame ==
  \A r \in Req :
    (req[r].pc = "handler" /\ req[r].attempted /\ req[r].outcome.kind # "ok") =>
      /\ req[r].tok.error
      /\ req[r].tok.accessToken = req[r].readTok.accessToken
      /\ req[r].tok.expiresAt = req[r].readTok.expiresAt
      /\ req[r].tok.refreshToken = req[r].readTok.refreshToken
      /\ req[r].tok.user = req[r].readTok.user
      /\ req[r].readTok.refreshToken = 0 =>
           (req[r].refreshCalls = 0 /\ req[r].outcome.kind = "none")
      /\ req[r].readTok.refreshToken # 0 => req[r].refreshCalls = 1

\* C20 witness: an expired credential without a refresh token, not flagged
\* before, has been returned flagged without any call to the token endpoint.
C20_Witness ==
  \E r \in Req :
    /\ req[r].pc = "handler" /\ req[r].attempted
    /\ req[r].readTok.accessToken # 0 /\ req[r].readTok.refreshToken = 0
    /\ req[r].readTok.expiresAt # 0 /\ req[r].readTok.expiresAt <= req[r].fetchedAt
    /\ ~req[r].readTok.error /\ req[r].tok.error
    /\ req[r].refreshCalls = 0

====
